---- MODULE Spec2Model ----
(***************************************************************************)
(* State-machine model of the LedMatrixText driver                         *)
(* (chapter_9/kernel/drivers/src/led_matrix_text.rs): a scrolling text     *)
(* renderer for a 5x5 LED matrix, driven by client calls (TextScreen),     *)
(* alarm ticks (AlarmClient) and deferred-call deliveries                  *)
(* (DynamicDeferredCallClient).                                            *)
(***************************************************************************)
EXTENDS Integers, Sequences, FiniteSets, TLC

VARIABLES
    leds,                 \* the 25 LEDs, leds[i+1] = 1 iff LED i is on
    alarm,                \* the alarm: [armed, ms] (ms = interval given to ticks_from_ms)
    buffer,               \* the display text (TakeCell contents), BufCap bytes
    client_buffer,        \* TakeCell<'static,[u8]>: None or Some(buffer of the client)
    client_len,
    position,
    len,
    speed,
    status,
    is_enabled,
    deferred_call_handle, \* OptionalCell<DeferredCallHandle>: TRUE iff a handle is stored
    deferred_pending,     \* DynamicDeferredCall: the driver's handle is set (call pending)
    client,               \* OptionalCell<&dyn TextScreenClient>: TRUE iff a client is stored
    panicked,             \* the kernel has panicked (index out of bounds): nothing runs
    ev,                   \* what the last step returned to its caller or emitted
                          \* to the client (NoEvent for a step that returns nothing)
    last_print,           \* history: buffer and count of the last accepted print
    n_accepted,           \* history: gated operations that returned Ok
    n_scheduled,          \* history: calls of deferred_caller.set(handle)
    n_delivered,          \* history: deliveries of the deferred call (runs of call)
    n_notified,           \* history: completions emitted to a client
    n_cleared             \* history: accepted clears

vars == <<leds, alarm, buffer, client_buffer, client_len, position, len, speed,
          status, is_enabled, deferred_call_handle, deferred_pending, client,
          panicked, ev, last_print, n_accepted, n_scheduled, n_delivered,
          n_notified, n_cleared>>

-----------------------------------------------------------------------------
(* Bounds of the model *)

\* capacity of the display-text buffer handed to new()
BufCap == 2

\* number of gated operations accepted in one behaviour
MaxOps == 2

-----------------------------------------------------------------------------
(* Program constants *)

NumLeds == 25

DIGITS == <<33150783, 4591758, 31504927, 31520830, 17322980,
            33060926, 33062463, 32540804, 33095231, 33094719>>

LETTERS == <<15269425, 33094207, 33047071, 32032318, 33061407, 33061392,
             33054271, 18415153, 32641183, 3180095, 18444881, 17318431,
             18732593, 18667121, 15255086, 32045584, 15254979, 32045617,
             33061951, 32641156, 18400831, 18393412, 18405034, 18157905,
             18393220, 32575775>>

Idle == "Idle"
ExecutesCommand == "ExecutesCommand"
ExecutesPrint == "ExecutesPrint"
Status == {Idle, ExecutesCommand, ExecutesPrint}

-----------------------------------------------------------------------------
(* Inputs *)

\* Option values of TakeCell / Result payloads
None == <<>>
Some(b) == <<b>>

\* texts a client prints: "HIHI.." and "$i7$i7.." cut to length l
Text(p, l) == [i \in 1..l |-> p[((i - 1) % Len(p)) + 1]]
HI == <<72, 73>>
Dollar_i_7 == <<36, 105, 55>>
Counts == 0..(BufCap + 1)
ClientBuffers == { Text(HI, l) : l \in Counts } \cup { Text(Dollar_i_7, BufCap) }

\* the print calls a client makes: "HI.." buffers of every length up to one
\* more than the capacity of the display text, printed whole; a "$i7.." buffer
\* as long as the display text, printed with every count up to one more
PrintCalls ==
    { <<Text(HI, l), l>> : l \in Counts }
        \cup { <<Text(Dollar_i_7, BufCap), n>> : n \in Counts }
Speeds == {100, 250}
CommandNumbers == 0..2

-----------------------------------------------------------------------------
(* Helpers of the driver *)

Max(a, b) == IF a >= b THEN a ELSE b

Blank == [i \in 1..NumLeds |-> 0]

\* u32 bit test (glyph >> k) & 0x01
Bit(glyph, k) == (glyph \div (2 ^ k)) % 2

\* LedMatrixText::print(glyph): LED index is on iff bit (24 - index) is 1
leds_print(glyph) == [i \in 1..NumLeds |-> Bit(glyph, 24 - (i - 1))]

\* a clear loop that calls on() where it should call off()
leds_all_on == [i \in 1..NumLeds |-> 1]

\* LedMatrixText::clear(): all LEDs off
leds_clear == Blank

\* char::to_ascii_uppercase
to_ascii_uppercase(c) == IF c >= 97 /\ c <= 122 THEN c - 32 ELSE c

\* LedMatrixText::display: the frame it leaves on the LEDs
display_frame(character, enabled) ==
    IF enabled
    THEN LET displayed_character == to_ascii_uppercase(character)
         IN  IF displayed_character >= 48 /\ displayed_character <= 57
             THEN leds_print(DIGITS[displayed_character - 48 + 1])
             ELSE IF displayed_character >= 65 /\ displayed_character <= 90
                  THEN leds_print(LETTERS[displayed_character - 65 + 1])
                  ELSE leds_clear
    ELSE leds_clear

\* LedMatrixText::display: the Result it returns
display_result(character, enabled) ==
    IF enabled
    THEN LET displayed_character == to_ascii_uppercase(character)
         IN  IF (displayed_character >= 48 /\ displayed_character <= 57)
                \/ (displayed_character >= 65 /\ displayed_character <= 90)
             THEN "Ok"
             ELSE "INVAL"
    ELSE "Ok"

\* the position display_next works on after its wrap test
wrap(pos, ln) == IF pos >= ln THEN 0 ELSE pos

\* a display_next that stands still while the display is disabled
display_next_paused(pos, ln, buf, enabled, ld, al, spd) ==
    LET p0 == wrap(pos, ln)
        shown == p0 < ln /\ p0 < Len(buf)
    IN  [ position |-> IF shown /\ enabled THEN p0 + 1 ELSE p0,
          result   |-> IF shown THEN display_result(buf[p0 + 1], enabled)
                       ELSE "none",
          leds     |-> IF p0 < ln
                       THEN IF p0 < Len(buf)
                            THEN display_frame(buf[p0 + 1], enabled)
                            ELSE leds_clear
                       ELSE ld,
          alarm    |-> IF ln > 0 THEN [armed |-> TRUE, ms |-> spd] ELSE al ]

\* a display_next that scrolls once: it re-arms the alarm only while position
\* has not reached the end of the text
display_next_single_pass(pos, ln, buf, enabled, ld, al, spd) ==
    LET p0 == wrap(pos, ln)
        shown == p0 < ln /\ p0 < Len(buf)
    IN  [ position |-> IF shown THEN p0 + 1 ELSE p0,
          result   |-> IF shown THEN display_result(buf[p0 + 1], enabled)
                       ELSE "none",
          leds     |-> IF p0 < ln
                       THEN IF p0 < Len(buf)
                            THEN display_frame(buf[p0 + 1], enabled)
                            ELSE leds_clear
                       ELSE ld,
          alarm    |-> IF pos < ln THEN [armed |-> TRUE, ms |-> spd] ELSE al ]

\* a display_next that re-arms the alarm whether or not there is text
display_next_always_arms(pos, ln, buf, enabled, ld, al, spd) ==
    LET p0 == wrap(pos, ln)
        shown == p0 < ln /\ p0 < Len(buf)
    IN  [ position |-> IF shown THEN p0 + 1 ELSE p0,
          result   |-> IF shown THEN display_result(buf[p0 + 1], enabled)
                       ELSE "none",
          leds     |-> IF p0 < ln
                       THEN IF p0 < Len(buf)
                            THEN display_frame(buf[p0 + 1], enabled)
                            ELSE leds_clear
                       ELSE ld,
          alarm    |-> [armed |-> TRUE, ms |-> spd] ]

\* a display_next that re-arms with the interval of the alarm that fired
display_next_stale_interval(pos, ln, buf, enabled, ld, al, spd) ==
    LET p0 == wrap(pos, ln)
        shown == p0 < ln /\ p0 < Len(buf)
    IN  [ position |-> IF shown THEN p0 + 1 ELSE p0,
          result   |-> IF shown THEN display_result(buf[p0 + 1], enabled)
                       ELSE "none",
          leds     |-> IF p0 < ln
                       THEN IF p0 < Len(buf)
                            THEN display_frame(buf[p0 + 1], enabled)
                            ELSE leds_clear
                       ELSE ld,
          alarm    |-> IF ln > 0 THEN [armed |-> TRUE, ms |-> al.ms] ELSE al ]

\* LedMatrixText::display_next: new position, LEDs and alarm, from the
\* position, length, display text, enable flag, LEDs, alarm and speed
display_next(pos, ln, buf, enabled, ld, al, spd) ==
    LET p0 == wrap(pos, ln)
        shown == p0 < ln /\ p0 < Len(buf)
    IN  [ position |-> IF shown THEN p0 + 1 ELSE p0,
          \* the Result of display, which display_next drops (let _ =)
          result   |-> IF shown THEN display_result(buf[p0 + 1], enabled)
                       ELSE "none",
          leds     |-> IF p0 < ln
                       THEN IF p0 < Len(buf)
                            THEN display_frame(buf[p0 + 1], enabled)
                            ELSE leds_clear
                       ELSE ld,
          alarm    |-> IF ln > 0 THEN [armed |-> TRUE, ms |-> spd] ELSE al ]

\* a gate that only looks for a print in flight
gate_print_only(st) == st # ExecutesPrint

\* the test every gated operation starts with
gate(st) == st = Idle

\* a schedule_deferred_callback that forgets to set the deferred call
schedule_nothing(handle, pending) == [pending |-> pending, calls |-> 0]

\* LedMatrixText::schedule_deferred_callback: with a handle stored it calls
\* deferred_caller.set once, which marks the handle pending; with none stored
\* it does nothing
schedule_deferred_callback(handle, pending) ==
    [pending |-> IF handle THEN TRUE ELSE pending,
     calls   |-> IF handle THEN 1 ELSE 0]

\* what a step hands to the outside: the entry point that ran, the result it
\* returned or reported, the buffer handed back, the length (print's count,
\* or the length write_complete reports), the completion emitted to the
\* client, the number of deferred_caller.set calls made
Event(kind, result, buf, l, notify, sched) ==
    [kind |-> kind, result |-> result, buf |-> buf, len |-> l,
     notify |-> notify, sched |-> sched]

NoEvent == Event("none", "none", None, 0, "none", 0)

-----------------------------------------------------------------------------
(* Initial state: LedMatrixText::new *)

Init ==
    /\ leds = Blank
    /\ alarm = [armed |-> FALSE, ms |-> 0]
    /\ buffer = [i \in 1..BufCap |-> 0]
    /\ client_buffer = None
    /\ client_len = 0
    /\ position = 0
    /\ speed \in Speeds
    /\ len = 0
    /\ status = Idle
    /\ is_enabled = FALSE
    /\ deferred_call_handle = FALSE
    /\ deferred_pending = FALSE
    /\ client = FALSE
    /\ panicked = FALSE
    /\ ev = NoEvent
    /\ last_print = [buf |-> <<>>, n |-> 0, display |-> "none"]
    /\ n_accepted = 0
    /\ n_scheduled = 0
    /\ n_delivered = 0
    /\ n_notified = 0
    /\ n_cleared = 0

-----------------------------------------------------------------------------
(* Setup operations *)

\* LedMatrixText::initialize_callback_handle
initialize_callback_handle ==
    /\ ~panicked
    /\ deferred_call_handle' = TRUE
    /\ ev' = NoEvent
    /\ UNCHANGED <<leds, alarm, buffer, client_buffer, client_len, position, len,
                   speed, status, is_enabled, deferred_pending, client, panicked,
                   last_print, n_accepted, n_scheduled, n_delivered, n_notified,
                   n_cleared>>

\* TextScreen::set_client(Some(client)) / set_client(None)
set_client(c) ==
    /\ ~panicked
    /\ client' = c
    /\ ev' = NoEvent
    /\ UNCHANGED <<leds, alarm, buffer, client_buffer, client_len, position, len,
                   speed, status, is_enabled, deferred_call_handle, deferred_pending,
                   panicked, last_print, n_accepted, n_scheduled, n_delivered, n_notified,
                   n_cleared>>

-----------------------------------------------------------------------------
(* Gated operations of TextScreen *)

\* a copy loop that stops one byte early
copy_in_short(buf, buffer_in, n) ==
    [i \in 1..Len(buf) |-> IF i < n THEN buffer_in[i] ELSE buf[i]]

\* the bytes print copies into the display text: buf[position] = buffer[position]
copy_in(buf, buffer_in, n) ==
    [i \in 1..Len(buf) |-> IF i <= n THEN buffer_in[i] ELSE buf[i]]

\* a print that records the count of the last print as the length
print_len_last(n, previous_len) == n

\* the length print records: cmp::max(len, self.len.get())
print_len(n, previous_len) == Max(n, previous_len)

\* a print that always leaves the first frame to the alarm
renders_never(previous_len) == FALSE

\* print calls display_next itself only when the display text was empty
renders_now(previous_len) == previous_len = 0

\* print's size test: len <= buffer.len(), buffer being the caller's
size_ok(buffer_in, n) == n <= Len(buffer_in)

\* TextScreen::print(buffer, len)
print(buffer_in, n) ==
    /\ ~panicked
    /\ n_accepted < MaxOps
    /\ IF gate(status)
       THEN IF size_ok(buffer_in, n)
            THEN IF n > Len(buffer)
                 THEN \* buf[position] with position = buf.len(): index out of
                      \* bounds, the kernel panics inside the copy loop
                      /\ buffer' = copy_in(buffer, buffer_in, Len(buffer))
                      /\ panicked' = TRUE
                      /\ ev' = Event("print", "PANIC", None, n, "none", 0)
                      /\ UNCHANGED <<leds, alarm, client_buffer, client_len, position,
                                     len, status, deferred_pending, last_print,
                                     n_accepted, n_scheduled>>
                 ELSE LET previous_len == len
                          new_buffer == copy_in(buffer, buffer_in, n)
                          new_len == print_len(n, len)
                          next == display_next(position, new_len, new_buffer,
                                               is_enabled, leds, alarm, speed)
                          scheduled ==
                              schedule_deferred_callback(deferred_call_handle,
                                                         deferred_pending)
                      IN  /\ buffer' = new_buffer
                          /\ len' = new_len
                          /\ client_buffer' = Some(buffer_in)
                          /\ client_len' = n
                          /\ status' = ExecutesPrint
                          /\ deferred_pending' = scheduled.pending
                          /\ n_scheduled' = n_scheduled + scheduled.calls
                          /\ IF renders_now(previous_len)
                             THEN /\ position' = next.position
                                  /\ leds' = next.leds
                                  /\ alarm' = next.alarm
                             ELSE UNCHANGED <<position, leds, alarm>>
                          /\ ev' = Event("print", "Ok", None, n, "none",
                                         scheduled.calls)
                          /\ last_print' =
                                [buf |-> buffer_in, n |-> n,
                                 display |-> IF renders_now(previous_len)
                                             THEN next.result ELSE "none"]
                          /\ n_accepted' = n_accepted + 1
                          /\ UNCHANGED panicked
            ELSE /\ ev' = Event("print", "SIZE", Some(buffer_in), n, "none", 0)
                 /\ UNCHANGED <<leds, alarm, buffer, client_buffer, client_len,
                                position, len, status, deferred_pending, panicked,
                                last_print, n_accepted, n_scheduled>>
       ELSE /\ ev' = Event("print", "BUSY", Some(buffer_in), n, "none", 0)
            /\ UNCHANGED <<leds, alarm, buffer, client_buffer, client_len,
                           position, len, status, deferred_pending, panicked,
                           last_print, n_accepted, n_scheduled>>
    /\ UNCHANGED <<speed, is_enabled, deferred_call_handle, client, n_delivered,
                   n_notified, n_cleared>>

\* what display_on, display_off and clear share: the status change, the
\* scheduling of the deferred call and the return value
command_accept(kind) ==
    LET scheduled == schedule_deferred_callback(deferred_call_handle,
                                                deferred_pending)
    IN  /\ status' = ExecutesCommand
        /\ deferred_pending' = scheduled.pending
        /\ n_scheduled' = n_scheduled + scheduled.calls
        /\ n_accepted' = n_accepted + 1
        /\ ev' = Event(kind, "Ok", None, 0, "none", scheduled.calls)

command_busy(kind) ==
    /\ ev' = Event(kind, "BUSY", None, 0, "none", 0)
    /\ UNCHANGED <<status, deferred_pending, n_scheduled, n_accepted>>

\* TextScreen::display_on
display_on ==
    /\ ~panicked
    /\ n_accepted < MaxOps
    /\ IF gate(status)
       THEN /\ is_enabled' = TRUE
            /\ command_accept("display_on")
       ELSE /\ command_busy("display_on")
            /\ UNCHANGED is_enabled
    /\ UNCHANGED <<leds, alarm, buffer, client_buffer, client_len, position, len,
                   speed, deferred_call_handle, client, panicked, last_print,
                   n_delivered, n_notified, n_cleared>>

\* TextScreen::display_off
display_off ==
    /\ ~panicked
    /\ n_accepted < MaxOps
    /\ IF gate(status)
       THEN /\ is_enabled' = FALSE
            /\ command_accept("display_off")
       ELSE /\ command_busy("display_off")
            /\ UNCHANGED is_enabled
    /\ UNCHANGED <<leds, alarm, buffer, client_buffer, client_len, position, len,
                   speed, deferred_call_handle, client, panicked, last_print,
                   n_delivered, n_notified, n_cleared>>

\* a clear that also cancels the alarm
clear_cancels_alarm ==
    /\ ~panicked
    /\ n_accepted < MaxOps
    /\ IF gate(status)
       THEN /\ position' = 0
            /\ len' = 0
            /\ leds' = leds_clear
            /\ alarm' = [armed |-> FALSE, ms |-> alarm.ms]
            /\ command_accept("clear")
            /\ n_cleared' = n_cleared + 1
       ELSE /\ command_busy("clear")
            /\ UNCHANGED <<position, len, leds, alarm, n_cleared>>
    /\ UNCHANGED <<buffer, client_buffer, client_len, speed, is_enabled,
                   deferred_call_handle, client, panicked, last_print, n_delivered,
                   n_notified>>

\* TextScreen::clear
clear ==
    /\ ~panicked
    /\ n_accepted < MaxOps
    /\ IF gate(status)
       THEN /\ position' = 0
            /\ len' = 0
            /\ leds' = leds_clear
            /\ command_accept("clear")
            /\ n_cleared' = n_cleared + 1
       ELSE /\ command_busy("clear")
            /\ UNCHANGED <<position, len, leds, n_cleared>>
    /\ UNCHANGED <<alarm, buffer, client_buffer, client_len, speed, is_enabled,
                   deferred_call_handle, client, panicked, last_print, n_delivered,
                   n_notified>>

-----------------------------------------------------------------------------
(* Events from the collaborators *)

\* an alarm handler that also runs the completion path: it resets the status
\* and drops the pending deferred call
alarm_fired_completes ==
    /\ ~panicked
    /\ alarm.armed
    /\ LET next == display_next(position, len, buffer, is_enabled, leds,
                                [armed |-> FALSE, ms |-> alarm.ms], speed)
       IN  /\ position' = next.position
           /\ leds' = next.leds
           /\ alarm' = next.alarm
    /\ status' = Idle
    /\ deferred_pending' = FALSE
    /\ ev' = Event("alarm", "none", None, 0, "none", 0)
    /\ UNCHANGED <<buffer, client_buffer, client_len, len, speed,
                   is_enabled, deferred_call_handle, client,
                   panicked, last_print, n_accepted, n_scheduled, n_delivered, n_notified,
                   n_cleared>>

\* AlarmClient::alarm: the armed alarm fires (and is no longer armed), then
\* display_next runs
alarm_fired ==
    /\ ~panicked
    /\ alarm.armed
    /\ LET next == display_next(position, len, buffer, is_enabled, leds,
                                [armed |-> FALSE, ms |-> alarm.ms], speed)
       IN  /\ position' = next.position
           /\ leds' = next.leds
           /\ alarm' = next.alarm
    /\ ev' = Event("alarm", "none", None, 0, "none", 0)
    /\ UNCHANGED <<buffer, client_buffer, client_len, len, speed, status,
                   is_enabled, deferred_call_handle, deferred_pending, client,
                   panicked, last_print, n_accepted, n_scheduled, n_delivered, n_notified,
                   n_cleared>>

\* a call that completes prints only
call_notify_print_only(st, cl, cb) ==
    IF st = ExecutesPrint /\ cl /\ cb # None THEN "write_complete" ELSE "none"

\* the completion DynamicDeferredCallClient::call emits to the client
call_notify(st, cl, cb) ==
    IF st = ExecutesCommand /\ cl THEN "command_complete"
    ELSE IF st = ExecutesPrint /\ cl /\ cb # None THEN "write_complete"
    ELSE "none"

\* a call that hands the buffer out without taking it from the cell
call_take_keeps(st, cl, cb) == cb

\* client_buffer after call: taken only inside client.map
call_take(st, cl, cb) ==
    IF st = ExecutesPrint /\ cl THEN None ELSE cb

\* a call that resets the status in its command branch only
call_status_command_only(st) == IF st = ExecutesCommand THEN Idle ELSE st

\* a call that forgets to reset the status
call_status_stays(st) == st

\* status after call
call_status(st) == Idle

\* DynamicDeferredCallClient::call: the scheduler clears the handle's flag and
\* calls the driver
call ==
    /\ ~panicked
    /\ deferred_pending
    /\ deferred_pending' = FALSE
    /\ LET notify == call_notify(status, client, client_buffer)
       IN  /\ ev' = IF notify = "write_complete"
                    THEN Event("call", "Ok", client_buffer, client_len, notify, 0)
                    ELSE IF notify = "command_complete"
                         THEN Event("call", "Ok", None, 0, notify, 0)
                         ELSE Event("call", "none", None, 0, notify, 0)
           /\ n_notified' = IF notify = "none" THEN n_notified ELSE n_notified + 1
    /\ n_delivered' = n_delivered + 1
    /\ client_buffer' = call_take(status, client, client_buffer)
    /\ status' = call_status(status)
    /\ UNCHANGED <<leds, alarm, buffer, client_len, position, len, speed,
                   is_enabled, deferred_call_handle, client, panicked, last_print,
                   n_accepted, n_scheduled, n_cleared>>

-----------------------------------------------------------------------------
(* SyscallDriver::command *)

\* r2 as u32: the value itself for every r2 below 2^32 (usize is 32 bits wide
\* on the boards of the book; the inputs drawn here are far below it)
as_u32(r2) == r2

command(command_number, r2) ==
    /\ ~panicked
    /\ IF command_number = 1
       THEN /\ speed' = as_u32(r2)
            /\ ev' = Event("command", "Ok", None, 0, "none", 0)
       ELSE /\ UNCHANGED speed
            /\ ev' = Event("command",
                           IF command_number = 0 THEN "Ok" ELSE "NOSUPPORT",
                           None, 0, "none", 0)
    /\ UNCHANGED <<leds, alarm, buffer, client_buffer, client_len, position, len,
                   status, is_enabled, deferred_call_handle, deferred_pending,
                   client, panicked, last_print, n_accepted, n_scheduled,
                   n_delivered, n_notified, n_cleared>>

-----------------------------------------------------------------------------
(* Specification *)

Next ==
    \/ initialize_callback_handle
    \/ \E c \in BOOLEAN : set_client(c)
    \/ \E c \in PrintCalls : print(c[1], c[2])
    \/ display_on
    \/ display_off
    \/ clear
    \/ alarm_fired
    \/ call
    \/ \E c \in CommandNumbers, r2 \in Speeds : command(c, r2)

Spec == Init /\ [][Next]_vars

\* the deferred-call scheduler delivers every call that is set
FairSpec == Spec /\ WF_vars(call)

\* the alarm fires every time it is armed
FairAlarmSpec == Spec /\ WF_vars(alarm_fired)

TypeOK ==
    /\ leds \in [1..NumLeds -> {0, 1}]
    /\ alarm \in [armed : BOOLEAN, ms : Speeds \cup {0}]
    /\ buffer \in [1..BufCap -> 0..255]
    /\ client_buffer \in {None} \cup { Some(b) : b \in ClientBuffers }
    /\ client_len \in Counts
    /\ position \in 0..BufCap
    /\ len \in 0..BufCap
    /\ speed \in Speeds
    /\ status \in Status
    /\ is_enabled \in BOOLEAN
    /\ deferred_call_handle \in BOOLEAN
    /\ deferred_pending \in BOOLEAN
    /\ client \in BOOLEAN
    /\ panicked \in BOOLEAN
    /\ n_accepted \in 0..MaxOps
    /\ n_scheduled \in 0..MaxOps
    /\ n_delivered \in 0..MaxOps
    /\ n_notified \in 0..MaxOps
    /\ n_cleared \in 0..MaxOps

-----------------------------------------------------------------------------
(* Vocabulary of the properties *)

\* a step of one of the gated operations
print_step == \E c \in PrintCalls : print(c[1], c[2])
command_step == display_on \/ display_off \/ clear
gated_step == print_step \/ command_step

\* a step of any operation a client calls
client_op_step ==
    \/ gated_step
    \/ \E c \in CommandNumbers, r2 \in Speeds : command(c, r2)
    \/ \E c \in BOOLEAN : set_client(c)

\* the frames the glyph table of the source draws for the bytes the clients
\* print here, row by row as the binary literals of DIGITS and LETTERS are
\* written: 'H', 'I' (also for 'i') and '7'; every other byte used ('$', 0)
\* has no glyph
FrameH == <<1,0,0,0,1, 1,0,0,0,1, 1,1,1,1,1, 1,0,0,0,1, 1,0,0,0,1>>
FrameI == <<1,1,1,1,1, 0,0,1,0,0, 0,0,1,0,0, 0,0,1,0,0, 1,1,1,1,1>>
Frame7 == <<1,1,1,1,1, 0,0,0,0,1, 0,0,0,1,0, 0,0,1,0,0, 0,0,1,0,0>>
ExpectedFrame(c) ==
    CASE c = 72 -> FrameH
      [] c = 73 \/ c = 105 -> FrameI
      [] c = 55 -> Frame7
      [] OTHER -> Blank

-----------------------------------------------------------------------------
(* C1 *)

\* C1: a gated operation (print, clear, display_on, display_off) called while
\* status is not Idle returns BUSY and leaves status, position, len,
\* is_enabled, the display text, the held client buffer, client_len, the
\* alarm, the LEDs and the pending deferred call unchanged, schedules nothing,
\* and print hands the supplied buffer back in the error.
C1_BusyRejects ==
    [][ /\ (status # Idle /\ gated_step) =>
              /\ ev'.result = "BUSY"
              /\ ev'.sched = 0
              /\ UNCHANGED <<status, position, len, is_enabled, buffer,
                             client_buffer, client_len, alarm, leds,
                             deferred_pending, n_scheduled, n_accepted>>
        /\ \A c \in PrintCalls :
              (status # Idle /\ print(c[1], c[2])) => ev'.buf = Some(c[1])
      ]_vars

\* a print was rejected with BUSY while an earlier print was still pending
C1_Witness ==
    /\ ev.kind = "print" /\ ev.result = "BUSY" /\ ev.buf = Some(Text(HI, 2))
    /\ status = ExecutesPrint
    /\ deferred_pending

-----------------------------------------------------------------------------
(* C2 *)

\* C2: every print(buf, n) issued in status Idle with n above the capacity of
\* the display text, whatever the length of buf, fails with SIZE, hands buf
\* back, schedules nothing and leaves status, len, position, the display text
\* and the alarm unchanged.
C2_OversizeRejected ==
    [][ \A c \in PrintCalls :
          (status = Idle /\ c[2] > BufCap /\ print(c[1], c[2])) =>
              /\ ev'.result = "SIZE"
              /\ ev'.buf = Some(c[1])
              /\ ev'.sched = 0
              /\ UNCHANGED <<status, len, position, buffer, alarm,
                             deferred_pending>>
      ]_vars

-----------------------------------------------------------------------------
(* C3 *)

\* C3 as claimed: whenever a gated operation is accepted, the completion
\* notification of every operation accepted before it has been delivered to
\* the client.
C3_NotifiedBeforeNext ==
    [][ (gated_step /\ ev'.result = "Ok") => n_notified = n_accepted ]_vars

\* C3: whenever a gated operation is accepted, the deferred call of every
\* operation accepted before it has been delivered and none is pending; a
\* delivery in a non-Idle status emits that operation's completion
\* (write_complete for a print, command_complete for a command) when a client
\* is registered at that moment, and emits nothing when none is.
C3_DeliveredBeforeNext ==
    [][ /\ (gated_step /\ ev'.result = "Ok") =>
              /\ n_delivered = n_accepted
              /\ ~deferred_pending
        /\ (call /\ status # Idle /\ client) =>
              /\ ev'.notify = IF status = ExecutesPrint
                              THEN "write_complete" ELSE "command_complete"
              /\ n_notified' = n_notified + 1
        /\ (call /\ ~client) =>
              /\ ev'.notify = "none"
              /\ n_notified' = n_notified
      ]_vars

\* a second operation has been accepted after the first one was notified
C3_Witness ==
    /\ n_accepted = 2 /\ n_delivered = 1 /\ n_notified = 1
    /\ status # Idle /\ ev.result = "Ok" /\ ev.kind # "call"

-----------------------------------------------------------------------------
(* C4 *)

\* C4 as claimed: the delivery of the deferred call of an accepted print
\* hands the buffer back through write_complete with the accepted count and
\* success, and the driver, back in Idle, no longer holds the buffer.
C4_AlwaysHandedBack ==
    [][ (call /\ status = ExecutesPrint) =>
          /\ ev'.notify = "write_complete"
          /\ ev'.buf = Some(last_print.buf)
          /\ ev'.len = last_print.n
          /\ ev'.result = "Ok"
          /\ status' = Idle
          /\ client_buffer' = None
      ]_vars

\* C4: an accepted print does not hand the buffer back in its return value;
\* write_complete is emitted only by a delivery in status ExecutesPrint with a
\* client registered, it carries the buffer and the count of the accepted
\* print and success, and it leaves status Idle and client_buffer empty, so
\* the buffer cannot be handed back a second time; a delivery in status
\* ExecutesPrint with no client registered emits nothing and leaves the buffer
\* in client_buffer.
C4_BufferRoundTrip ==
    [][ /\ (print_step /\ ev'.result = "Ok") =>
              /\ ev'.buf = None
              /\ client_buffer' = Some(last_print'.buf)
              /\ client_len' = last_print'.n
        /\ (call /\ status = ExecutesPrint /\ client) =>
              /\ ev'.notify = "write_complete"
              /\ ev'.buf = Some(last_print.buf)
              /\ ev'.len = last_print.n
              /\ ev'.result = "Ok"
              /\ client_buffer' = None
              /\ status' = Idle
        /\ (call /\ status = ExecutesPrint /\ ~client) =>
              /\ ev'.notify = "none"
              /\ client_buffer' = Some(last_print.buf)
              /\ status' = Idle
        /\ ev'.notify = "write_complete" =>
              /\ status = ExecutesPrint /\ client
              /\ client_buffer' = None
      ]_vars

\* the buffer of print("HI", 2) has come back through write_complete
C4_Witness ==
    /\ ev.kind = "call" /\ ev.notify = "write_complete"
    /\ ev.buf = Some(Text(HI, 2)) /\ ev.len = 2 /\ ev.result = "Ok"
    /\ status = Idle /\ client_buffer = None

-----------------------------------------------------------------------------
(* C5 *)

\* C5 as claimed: a gated operation that returns Ok has scheduled exactly one
\* deferred call, one that returns an error none, and the number of deferred
\* calls scheduled equals the number of operations accepted.
C5_ScheduledEqualsAccepted ==
    [][ gated_step =>
          /\ ev'.sched = IF ev'.result = "Ok" THEN 1 ELSE 0
          /\ n_scheduled' = n_accepted'
      ]_vars

\* C5: a gated operation that returns Ok has called deferred_caller.set
\* exactly once if the callback handle has been initialised and not at all if
\* it has not; one that returns an error has not called it; set is never
\* called while a call is already pending, and the count of set calls equals
\* the count of operations accepted with the handle initialised.
C5_OneCallbackPerAccept ==
    [][ gated_step =>
          /\ ev'.sched = IF ev'.result = "Ok" /\ deferred_call_handle
                         THEN 1 ELSE 0
          /\ n_scheduled' = n_scheduled + ev'.sched
          /\ n_accepted' = n_accepted + (IF ev'.result = "Ok" THEN 1 ELSE 0)
          /\ ev'.sched = 1 => (~deferred_pending /\ deferred_pending')
          /\ ev'.sched = 0 => UNCHANGED deferred_pending
      ]_vars

\* the second accepted operation has scheduled the second deferred call
C5_Witness ==
    /\ n_accepted = 2 /\ n_scheduled = 2 /\ ev.sched = 1 /\ ev.result = "Ok"
    /\ deferred_pending

-----------------------------------------------------------------------------
(* C6 *)

\* C6 as claimed: under fair delivery of scheduled deferred calls, whenever
\* status is not Idle it eventually returns to Idle.
C6_AlwaysReturnsToIdle == (status # Idle) ~> (status = Idle)

\* C6: under fair delivery of scheduled deferred calls, whenever an operation
\* is in flight with its deferred call scheduled, the call is eventually
\* delivered: status is Idle again and the completion has been emitted if a
\* client is registered at that moment; an operation in flight with no
\* deferred call scheduled (accepted before the handle was initialised) stays
\* in flight at every step.
C6_ScheduledLeadsToIdle ==
    /\ (status # Idle /\ deferred_pending) ~>
          (status = Idle /\ ev.kind = "call" /\ (client => ev.notify # "none"))
    /\ [][ (status # Idle /\ ~deferred_pending) => status' = status ]_vars

\* an operation is in flight and its deferred call is scheduled
C6_Witness ==
    /\ status = ExecutesPrint /\ deferred_pending /\ deferred_call_handle
    /\ n_accepted = 2 /\ n_delivered = 1

-----------------------------------------------------------------------------
(* C7 *)

\* C7 as claimed: after an accepted print(buf, n), whatever the previous len,
\* every tick that renders a frame renders a byte of buf[0..n], the one at the
\* position rendered (its glyph on the enabled display, all LEDs off on the
\* disabled one).
C7_OnlyLastPrintRendered ==
    [][ (alarm_fired /\ len > 0) =>
          LET i == wrap(position, len)
          IN  /\ i < last_print.n
              /\ leds' = IF is_enabled
                         THEN ExpectedFrame(last_print.buf[i + 1])
                         ELSE Blank
      ]_vars

\* C7: an accepted print(buf, n) leaves len = n when the previous len was at
\* most n; every tick with len > 0 renders index position (index 0 when
\* position has reached len) and moves position one past it, so the indexes
\* 0..len-1 are rendered cyclically; while len equals the n of the last
\* accepted print the frame is the glyph of that print's byte at the index
\* (blank if the display is disabled); while len is greater (the previous len
\* was greater than n) the indexes n..len-1 render the bytes earlier prints
\* left in the display text.
C7_CycleOfLastPrint ==
    [][ /\ (print_step /\ ev'.result = "Ok") =>
              len' = Max(len, last_print'.n)
        /\ (alarm_fired /\ len > 0) =>
              LET i == wrap(position, len)
              IN  /\ position' = IF position = len THEN 1 ELSE position + 1
                  /\ position' = i + 1
                  /\ len = last_print.n =>
                        leds' = IF is_enabled
                                THEN ExpectedFrame(last_print.buf[i + 1])
                                ELSE Blank
                  /\ (len > last_print.n /\ i >= last_print.n) =>
                        leds' = IF is_enabled
                                THEN ExpectedFrame(buffer[i + 1])
                                ELSE Blank
      ]_vars

\* "HI" is printed on the enabled display and a tick has just wrapped:
\* it rendered 'H' again and left position at 1
C7_Witness ==
    /\ ev.kind = "alarm" /\ is_enabled
    /\ last_print.buf = Text(HI, 2) /\ last_print.n = 2 /\ len = 2
    /\ position = 1 /\ leds = FrameH /\ alarm.armed

-----------------------------------------------------------------------------
(* C8 *)

\* C8 as claimed: print("HI", 2) on the freshly constructed driver returns Ok
\* with the glyph of 'H' on the LEDs, status non-Idle and one completion
\* scheduled; and every print accepted while len = 0 renders the glyph of its
\* first byte before it returns.
C8_FreshPrintRendersH ==
    [][ /\ (Init /\ print(Text(HI, 2), 2)) =>
              /\ ev'.result = "Ok"
              /\ leds' = FrameH
              /\ status' # Idle
              /\ ev'.sched = 1
        /\ \A c \in PrintCalls :
              (len = 0 /\ print(c[1], c[2]) /\ ev'.result = "Ok" /\ c[2] > 0) =>
                  leds' = ExpectedFrame(c[1][1])
      ]_vars

\* C8: a print of at least one byte accepted while len = 0 renders before it
\* returns, the glyph of its first byte if the display is enabled and a blank
\* frame if it is not, sets position to 1, status to ExecutesPrint, arms the
\* alarm and schedules one completion if the callback handle is initialised;
\* on the freshly constructed driver (display disabled, no handle)
\* print("HI", 2) returns Ok with a blank frame and nothing scheduled; with
\* the display enabled and the handle initialised it renders 'H' and
\* schedules one completion; the delivery leaves status Idle; the tick at
\* position 1 renders 'I' and the tick at position 2 wraps and renders 'H'.
C8_PrintIntoEmpty ==
    [][ /\ \A c \in PrintCalls :
              (len = 0 /\ print(c[1], c[2]) /\ ev'.result = "Ok" /\ c[2] > 0) =>
                  /\ leds' = IF is_enabled THEN ExpectedFrame(c[1][1]) ELSE Blank
                  /\ position' = 1
                  /\ status' = ExecutesPrint
                  /\ alarm' = [armed |-> TRUE, ms |-> speed]
                  /\ ev'.sched = IF deferred_call_handle THEN 1 ELSE 0
                  /\ deferred_pending' = deferred_call_handle
        /\ (Init /\ print(Text(HI, 2), 2)) =>
              /\ ev'.result = "Ok"
              /\ leds' = Blank
              /\ status' = ExecutesPrint
              /\ ev'.sched = 0 /\ ~deferred_pending'
        /\ (status = Idle /\ len = 0 /\ is_enabled /\ deferred_call_handle
              /\ print(Text(HI, 2), 2)) =>
              /\ ev'.result = "Ok"
              /\ leds' = FrameH
              /\ status' # Idle
              /\ ev'.sched = 1 /\ deferred_pending'
        /\ call => status' = Idle
        /\ (alarm_fired /\ is_enabled /\ len = 2 /\ SubSeq(buffer, 1, 2) = HI) =>
              /\ position = 1 => (leds' = FrameI /\ position' = 2)
              /\ position = 2 => (leds' = FrameH /\ position' = 1)
      ]_vars

\* display_on and print("HI", 2) were accepted and completed, and a tick has
\* rendered 'I'
C8_Witness ==
    /\ ev.kind = "alarm" /\ is_enabled /\ deferred_call_handle
    /\ n_accepted = 2 /\ n_delivered = 2
    /\ last_print.buf = Text(HI, 2) /\ last_print.n = 2 /\ len = 2
    /\ last_print.display = "Ok"
    /\ position = 2 /\ leds = FrameI /\ status = Idle

-----------------------------------------------------------------------------
(* C9 *)

\* C9: every tick with len > 0 moves position to one past the index it
\* renders (index 0 when position has reached len), whether the display is
\* enabled or not; the frame is all LEDs off while the display is disabled and
\* the glyph of the byte at that index while it is enabled; display_on and
\* display_off change neither position, len nor the display text, so the tick
\* after an accepted display_on renders the glyph at the current position.
C9_DisabledStillAdvances ==
    [][ /\ (alarm_fired /\ len > 0) =>
              LET i == wrap(position, len)
              IN  /\ position' = i + 1
                  /\ i < len
                  /\ ~is_enabled => leds' = Blank
                  /\ is_enabled => leds' = ExpectedFrame(buffer[i + 1])
        /\ (display_on \/ display_off) =>
              UNCHANGED <<position, len, buffer, leds, alarm>>
        /\ (display_on /\ status = Idle) => is_enabled'
        /\ (display_off /\ status = Idle) => ~is_enabled'
      ]_vars

\* a tick has rendered index 1 of "HI" as a blank frame on the disabled display
C9_Witness ==
    /\ ~is_enabled /\ len = 2 /\ position = 2 /\ SubSeq(buffer, 1, 2) = HI
    /\ leds = Blank /\ alarm.armed /\ ev.kind = "alarm"

-----------------------------------------------------------------------------
(* C10 *)

\* the bytes the glyph table covers: digits, letters, lowercase letters
Supported(c) ==
    (c >= 48 /\ c <= 57) \/ (c >= 65 /\ c <= 90) \/ (c >= 97 /\ c <= 122)

\* C10 as claimed: a print that renders an unsupported byte on the enabled
\* display shows all LEDs off, and the completion delivered for that print
\* does not report success.
C10_UnsupportedSurfaced ==
    [][ /\ \A c \in PrintCalls :
              (len = 0 /\ is_enabled /\ print(c[1], c[2]) /\ ev'.result = "Ok"
                 /\ c[2] > 0 /\ ~Supported(c[1][1])) =>
                  (leds' = Blank /\ last_print'.display = "INVAL")
        /\ (call /\ status = ExecutesPrint /\ client
              /\ last_print.display = "INVAL") =>
              ev'.result # "Ok"
      ]_vars

-----------------------------------------------------------------------------
(* C11 *)

-----------------------------------------------------------------------------
(* C12 *)

\* C12: command number 1 (set_speed) returns success in every status and
\* changes only speed, which becomes its argument: status, position, len,
\* is_enabled, the display text, the held client buffer, client_len, the
\* pending deferred call, the LEDs and the armed alarm with its interval stay
\* as they are; every arm of the alarm, by a tick with len > 0 or by a print
\* of at least one byte into the empty display text, uses the speed of that
\* moment as its interval.
C12_SetSpeedUnconditional ==
    [][ /\ \A r2 \in Speeds :
              command(1, r2) =>
                  /\ ev'.result = "Ok"
                  /\ speed' = r2
                  /\ UNCHANGED <<status, position, len, is_enabled, buffer,
                                 client_buffer, client_len, deferred_pending,
                                 leds, alarm>>
        /\ (alarm_fired /\ len > 0) => alarm' = [armed |-> TRUE, ms |-> speed]
        /\ \A c \in PrintCalls :
              (len = 0 /\ print(c[1], c[2]) /\ ev'.result = "Ok" /\ c[2] > 0) =>
                  alarm' = [armed |-> TRUE, ms |-> speed]
      ]_vars

\* one print is in flight, it armed the alarm, and a command has since set a
\* speed that differs from the interval of the armed alarm
C12_Witness ==
    /\ ev.kind = "command" /\ ev.result = "Ok"
    /\ n_accepted = 1 /\ status = ExecutesPrint /\ deferred_pending
    /\ alarm.armed /\ alarm.ms # speed

-----------------------------------------------------------------------------
(* C13 *)

\* C13 as claimed: in every reachable state, len = 0 implies that the alarm is
\* not armed.
C13_EmptyMeansUnarmed == len = 0 => ~alarm.armed

\* C13: the alarm is armed while len = 0 only after an accepted clear: clear
\* sets len to 0 and leaves the alarm as it is, armed if text was scrolling;
\* the tick that then fires with len = 0 renders nothing, keeps len = 0 and
\* leaves the alarm unarmed; the alarm goes from unarmed to armed only in a
\* step that ends with len > 0, so while len stays 0 an unarmed alarm stays
\* unarmed.
C13_EmptyStopsAtNextTick ==
    [][ /\ (len' = 0 /\ alarm'.armed) => n_cleared' > 0
        /\ (clear /\ status = Idle) => (len' = 0 /\ UNCHANGED alarm)
        /\ (alarm_fired /\ len = 0) =>
              /\ ~alarm'.armed
              /\ UNCHANGED <<len, position, leds>>
        /\ (~alarm.armed /\ alarm'.armed) => len' > 0
      ]_vars

\* "HI" was scrolling, a clear was accepted, and the tick that was pending has
\* fired without re-arming the alarm
C13_Witness ==
    /\ ev.kind = "alarm" /\ n_cleared = 1 /\ last_print.n = 2
    /\ len = 0 /\ position = 0 /\ leds = Blank /\ ~alarm.armed

-----------------------------------------------------------------------------
(* C14 *)

\* C14: in every reachable state 0 <= position <= len <= capacity of the
\* display text; a tick works on index 0 exactly when position has reached len
\* (or is 0 already) and on index position otherwise, and that index is inside
\* the display text; the copy loop of a print that passes the status test and
\* the size test writes indexes 0..n-1, all of them inside the display text.
C14_IndexesInBounds ==
    [][ /\ 0 <= position' /\ position' <= len' /\ len' <= Len(buffer')
        /\ alarm_fired =>
              /\ wrap(position, len) = IF position = len THEN 0 ELSE position
              /\ len > 0 => wrap(position, len) < Len(buffer)
        /\ \A c \in PrintCalls :
              (print(c[1], c[2]) /\ ev'.result \notin {"BUSY", "SIZE"}) =>
                  c[2] <= Len(buffer)
      ]_vars

-----------------------------------------------------------------------------
(* C15 *)

\* C15: an accepted print(buf, n) leaves buf[0..n] in indexes 0..n-1 of the
\* display text and the other indexes as they were, sets len to the greater of
\* the previous len and n, and leaves position, the LEDs and the alarm
\* unchanged when the previous len was above 0; no operation a client calls
\* other than an accepted clear takes position from a non-zero value to 0 or
\* decreases len.
C15_PrintKeepsPosition ==
    [][ /\ \A c \in PrintCalls :
              (print(c[1], c[2]) /\ ev'.result = "Ok") =>
                  /\ \A i \in 1..Len(buffer) :
                        buffer'[i] = IF i <= c[2] THEN c[1][i] ELSE buffer[i]
                  /\ len' = Max(len, c[2])
                  /\ len > 0 => UNCHANGED <<position, leds, alarm>>
        /\ (client_op_step /\ position # 0 /\ position' = 0) =>
              (clear /\ status = Idle)
        /\ (client_op_step /\ len' < len) => (clear /\ status = Idle)
      ]_vars

\* print("$", 1) was accepted over the scrolling "HI": the text is "$I", len
\* is still 2 and position is where the ticks had left it
C15_Witness ==
    /\ ev.kind = "print" /\ ev.result = "Ok" /\ status = ExecutesPrint
    /\ last_print.n = 1 /\ last_print.buf = Text(Dollar_i_7, BufCap)
    /\ buffer = <<36, 73>> /\ len = 2 /\ position = 2 /\ alarm.armed

-----------------------------------------------------------------------------
(* C16 *)

\* C16: an alarm tick, in whatever status, leaves status, is_enabled, speed,
\* len, the display text, the held client buffer, client_len, the registered
\* client and the pending deferred call unchanged; after it the alarm is armed
\* if and only if len > 0, and then its interval is the current speed.
C16_TickFrame ==
    [][ alarm_fired =>
          /\ UNCHANGED <<status, is_enabled, speed, len, buffer, client_buffer,
                         client_len, client, deferred_call_handle,
                         deferred_pending>>
          /\ alarm'.armed <=> len' > 0
          /\ alarm'.armed => alarm'.ms = speed'
      ]_vars

\* a tick has run while display_on was in flight over the scrolling "HI":
\* the command is still in flight, its deferred call still pending, and the
\* alarm is armed again
C16_Witness ==
    /\ ev.kind = "alarm" /\ status = ExecutesCommand /\ deferred_pending
    /\ is_enabled /\ len = 2 /\ SubSeq(buffer, 1, 2) = HI
    /\ alarm = [armed |-> TRUE, ms |-> speed]

-----------------------------------------------------------------------------
(* C17 *)

\* C17: clear, display_on and display_off, accepted or rejected, leave the
\* alarm as it is, armed or not and with the same interval; the alarm changes
\* only in a tick or in an accepted print into the empty display text.
C17_CommandsLeaveAlarm ==
    [][ /\ command_step => UNCHANGED alarm
        /\ alarm' # alarm =>
              \/ alarm_fired
              \/ (print_step /\ len = 0 /\ ev'.result = "Ok")
      ]_vars

\* a clear was accepted while "HI" was scrolling: the text is gone and the
\* alarm is armed as before
C17_Witness ==
    /\ ev.kind = "clear" /\ ev.result = "Ok" /\ n_cleared = 1
    /\ last_print.n = 2 /\ len = 0 /\ position = 0
    /\ alarm.armed /\ status = ExecutesCommand

-----------------------------------------------------------------------------
(* C18 *)

\* C18: a tick changes nothing the delivery of a completion reads or writes
\* (status, the registered client, the held client buffer, client_len, the
\* pending deferred call), and a delivery changes nothing a tick reads or
\* writes (position, len, the display text, is_enabled, speed, the LEDs, the
\* alarm), so with both pending either order ends in the same state; whatever
\* ticks ran in between, the delivery for a print emits write_complete with
\* the buffer and count of that print and success, the delivery for a command
\* emits command_complete with success, and a tick renders the byte at the
\* index it works on.
C18_TickAndCompletionIndependent ==
    [][ /\ alarm_fired =>
              UNCHANGED <<status, client, client_buffer, client_len,
                          deferred_call_handle, deferred_pending, n_delivered,
                          n_notified>>
        /\ call =>
              UNCHANGED <<position, len, buffer, is_enabled, speed, leds, alarm>>
        /\ (call /\ status = ExecutesPrint /\ client) =>
              ev' = Event("call", "Ok", Some(last_print.buf), last_print.n,
                          "write_complete", 0)
        /\ (call /\ status = ExecutesCommand /\ client) =>
              ev' = Event("call", "Ok", None, 0, "command_complete", 0)
        /\ (alarm_fired /\ len > 0) =>
              leds' = IF is_enabled
                      THEN ExpectedFrame(buffer[wrap(position, len) + 1])
                      ELSE Blank
      ]_vars

\* a tick ran while the completion of print("HI", 2) was pending (position
\* went from 1 to 2), and the completion was then delivered whole
C18_Witness ==
    /\ ev = Event("call", "Ok", Some(Text(HI, 2)), 2, "write_complete", 0)
    /\ n_accepted = 1 /\ n_delivered = 1 /\ status = Idle
    /\ len = 2 /\ position = 2 /\ alarm.armed

-----------------------------------------------------------------------------
(* C19 *)

\* C19: in every reachable state len > 0 implies that the alarm is armed, and
\* under fair alarm delivery the scroll never stalls: for every index i of the
\* text, whenever len > i, eventually a tick renders index i (leaving
\* position at i + 1) unless a clear has emptied the text before.
C19_ScrollNeverStalls ==
    /\ [](len > 0 => alarm.armed)
    /\ \A i \in 0..(BufCap - 1) :
          (len > i) ~> (\/ (ev.kind = "alarm" /\ position = i + 1)
                        \/ len <= i)

-----------------------------------------------------------------------------
(* C20 *)

\* C20 as claimed: in every reachable state, status = ExecutesPrint implies
\* that client_buffer holds the buffer of the accepted print and client_len
\* its count, and a deferred call is pending if and only if status is not
\* Idle.
C20_PendingIffBusy ==
    /\ status = ExecutesPrint =>
          (client_buffer = Some(last_print.buf) /\ client_len = last_print.n)
    /\ deferred_pending <=> status # Idle

\* C20: in every reachable state, status = ExecutesPrint implies that
\* client_buffer holds the buffer of the accepted print and client_len its
\* count, and a pending deferred call implies that status is not Idle; an
\* accepted operation leaves status non-Idle with a deferred call pending if
\* the callback handle is initialised and with none pending if it is not, and
\* this is the only way to a non-Idle status with no call pending; a delivery
\* happens only in a non-Idle status and leaves status Idle with no call
\* pending; the Idle branch of call emits nothing, takes no buffer and leaves
\* the status Idle.
C20_PendingImpliesBusy ==
    [][ /\ status' = ExecutesPrint =>
              (client_buffer' = Some(last_print'.buf)
                 /\ client_len' = last_print'.n)
        /\ deferred_pending' => status' # Idle
        /\ (gated_step /\ ev'.result = "Ok") =>
              (status' # Idle /\ (deferred_pending' <=> deferred_call_handle))
        /\ (status' # Idle /\ ~deferred_pending'
              /\ ~(status # Idle /\ ~deferred_pending)) =>
              (gated_step /\ ev'.result = "Ok" /\ ~deferred_call_handle)
        /\ call => (status # Idle /\ status' = Idle /\ ~deferred_pending')
        /\ \A cl \in BOOLEAN, cb \in {None} \cup { Some(b) : b \in ClientBuffers } :
              /\ call_notify(Idle, cl, cb) = "none"
              /\ call_take(Idle, cl, cb) = cb
              /\ call_status(Idle) = Idle
      ]_vars

\* print("HI", 2) has just been accepted with the handle initialised: the
\* driver holds the buffer and the count, and the deferred call is pending
C20_Witness ==
    /\ ev.kind = "print" /\ ev.result = "Ok" /\ ev.sched = 1 /\ n_accepted = 1
    /\ status = ExecutesPrint /\ deferred_call_handle /\ deferred_pending
    /\ client_buffer = Some(Text(HI, 2)) /\ client_len = 2

====
